---- MODULE Spec2Model ----
(***************************************************************************)
(* A model of zscaler_connector.py: the authenticated REST client core of  *)
(* the Zscaler connector (response classification, the retrying request    *)
(* executor, session login/logout and the list mutation protocol).         *)
(*                                                                         *)
(* Encoding of Python values:                                              *)
(*   - a string is a sequence of atoms (an atom is a character or an       *)
(*     indivisible word such as "seconds" or "http://");                   *)
(*   - None is the record None; a JSON object is a record with             *)
(*     kind = "obj", a JSON list a record with kind = "list";              *)
(*   - phantom.APP_SUCCESS (True) and phantom.APP_ERROR (False) are the    *)
(*     one-atom strings <<"True">> and <<"False">>, so that a status can   *)
(*     be compared with the string that the executor returns in its place. *)
(***************************************************************************)
EXTENDS Integers, Sequences, FiniteSets, TLC

VARIABLES
    pc,             \* position of the connector run
    _headers,       \* self._headers
    _response,      \* self._response: the most recent response object
    call,           \* arguments of the _make_rest_call_helper invocation in progress
    attempts,       \* requests issued for the invocation in progress
    waits,          \* the time.sleep() durations of the invocation in progress
    outcomes,       \* status of each attempt (0: no response, transport failure)
    wire,           \* the request put on the wire by the latest attempt
    ret,            \* what _make_rest_call_helper returned (None while in progress)
    init_status,    \* what initialize() returned
    login,          \* how the gateway answered the login: "pending", "accepted", "rejected"
    nactions,       \* handle_action() invocations of the run
    frame,          \* the locals of the action handler (None before the first action)
    issued,         \* the calls the action handler has started: <<method, endpoint>>
    action_result,  \* the ActionResult of the action: status, message, summary
    _category,      \* self._category
    _allowlist,     \* self._allowlist
    gateway,        \* the collections held by the gateway
    faithful,       \* the gateway of the run answers every call of an action with a
                    \* success and applies every write (TRUE), or answers in any way
    previous,       \* locals and result of the handle_action() invocation before the
                    \* current one (None for the first)
    finalize_status \* what finalize() returned

vars == <<pc, _headers, _response, call, attempts, waits, outcomes, wire, ret,
          init_status, login, nactions, frame, issued, action_result,
          _category, _allowlist, gateway, faithful, previous, finalize_status>>

\* what the session manager leaves alone
actionVars == <<frame, issued, action_result, _category, _allowlist, gateway, previous>>

---------------------------------------------------------------------------
(* Bounds of the model *)

\* attempts of one call that the model follows
MaxAttempts == 3
\* length of the category lists that _get_category is applied to on its own
MaxCategories == 2
\* handle_action() invocations per run: the host runs one action per invocation
MaxActions == 1
\* handle_action() invocations per run against a faithful gateway: the host calls
\* handle_action() once more with the parameters of the first invocation
MaxFaithfulActions == 2

---------------------------------------------------------------------------
(* Python values *)

None == [kind |-> "None"]
APP_SUCCESS == <<"True">>
APP_ERROR == <<"False">>
Unset == <<"unset">>

is_fail(status) == status = APP_ERROR

Dict(items) == [kind |-> "dict", items |-> items]

\* dict.update: the entries of u replace those of d with the same key
DictUpdate(d, u) ==
    Dict({p \in d.items : \A q \in u.items : q[1] # p[1]} \cup u.items)

Obj(fields) == [kind |-> "obj"] @@ fields
EmptyObj == [kind |-> "obj"]
List(items) == [kind |-> "list", items |-> items]

ToSet(s) == {s[i] : i \in 1..Len(s)}

RECURSIVE SeqOf(_)
\* list(S) of a set S: the order of the elements is one of the possible orders
SeqOf(S) ==
    IF S = {} THEN <<>>
    ELSE LET x == CHOOSE y \in S : TRUE IN <<x>> \o SeqOf(S \ {x})

\* phantom's ActionResult: set_status() sets status and message, set_summary() the
\* summary (None until then)
ActionResult(status, message, summary) ==
    [status |-> status, message |-> message, summary |-> summary]

---------------------------------------------------------------------------
(* Strings *)

RECURSIVE SplitOn(_, _)
\* str.split(sep)
SplitOn(s, sep) ==
    IF \A i \in 1..Len(s) : s[i] # sep
    THEN <<s>>
    ELSE LET i == CHOOSE k \in 1..Len(s) :
                      s[k] = sep /\ \A j \in 1..(k - 1) : s[j] # sep
         IN <<SubSeq(s, 1, i - 1)>> \o SplitOn(SubSeq(s, i + 1, Len(s)), sep)

RECURSIVE LStrip(_)
LStrip(s) == IF s # <<>> /\ Head(s) = " " THEN LStrip(Tail(s)) ELSE s

RECURSIVE RStrip(_)
RStrip(s) ==
    IF s # <<>> /\ s[Len(s)] = " " THEN RStrip(SubSeq(s, 1, Len(s) - 1)) ELSE s

\* str.strip()
Strip(s) == RStrip(LStrip(s))

NonEmpty(s) == s # <<>>

\* str.split() without argument: the maximal runs without whitespace
SplitWs(s) == SelectSeq(SplitOn(s, " "), NonEmpty)

LowerAtom(a) ==
    CASE a = "Seconds" -> "seconds"
      [] a = "SECONDS" -> "seconds"
      [] a = "Minutes" -> "minutes"
      [] a = "MINUTES" -> "minutes"
      [] OTHER -> a

\* str.lower()
Lower(s) == [i \in 1..Len(s) |-> LowerAtom(s[i])]

Digits == {"0", "1", "2", "3", "4", "5", "6", "7", "8", "9"}

DigitVal(a) ==
    CASE a = "0" -> 0 [] a = "1" -> 1 [] a = "2" -> 2 [] a = "3" -> 3
      [] a = "4" -> 4 [] a = "5" -> 5 [] a = "6" -> 6 [] a = "7" -> 7
      [] a = "8" -> 8 [] a = "9" -> 9

RECURSIVE NatOf(_)
NatOf(s) == IF s = <<>> THEN 0
            ELSE 10 * NatOf(SubSeq(s, 1, Len(s) - 1)) + DigitVal(s[Len(s)])

AllDigits(s) == s # <<>> /\ \A i \in 1..Len(s) : s[i] \in Digits

\* int(s) accepts an optional sign followed by digits, raises ValueError otherwise
IntOk(s) ==
    \/ AllDigits(s)
    \/ s # <<>> /\ Head(s) \in {"-", "+"} /\ AllDigits(Tail(s))

IntOf(s) ==
    IF Head(s) = "-" THEN 0 - NatOf(Tail(s))
    ELSE IF Head(s) = "+" THEN NatOf(Tail(s))
    ELSE NatOf(s)

---------------------------------------------------------------------------
(* Responses of the gateway *)

\* requests raised an exception: there is no response
TransportError == [kind |-> "TransportError"]

CT_JSON == "application/json"
CT_HTML == "text/html"
CT_NONE == ""

EmptyBody == [kind |-> "empty"]
TextBody == [kind |-> "text"]
JsonBody(val) == [kind |-> "json", val |-> val]

Resp(status, ctype, body, cookie) ==
    [status |-> status, ctype |-> ctype, body |-> body, cookie |-> cookie]

JsonResp(status, val) == Resp(status, CT_JSON, JsonBody(val), {})

Message(m) == Obj("message" :> m)

\* the Retry-After values the gateway of the model sends
RetryAfterValues ==
    { <<"5", " ", "seconds">>,
      <<"2", " ", "minutes">>,
      <<"0", " ", "Seconds">>,
      <<"3", " ", "hours">>,
      <<"-", "1", " ", "seconds">>,
      <<"soon">> }

R409 == JsonResp(409, Message(<<"lock">>))
R429(v) == JsonResp(429, Message(<<"rate">>) @@ ("Retry-After" :> v))
R429NoKey == JsonResp(429, Message(<<"rate">>))
R429Text == Resp(429, CT_NONE, TextBody, {})
R500 == JsonResp(500, Message(<<"error">>))
RHtml == Resp(200, CT_HTML, TextBody, {})
R204 == Resp(204, CT_NONE, EmptyBody, {})

\* the answers every call can get that are not a success
Failures ==
    {R409, R429NoKey, R429Text, R500, RHtml} \cup {R429(v) : v \in RetryAfterValues}

\* the failures that the calls of an action and the logout get in the model
CoreFailures == {R409, R429(<<"3", " ", "hours">>), R500}

R204Json == Resp(204, CT_JSON, EmptyBody, {})

---------------------------------------------------------------------------
(* Response Classifier *)

\* faulty variant: a 204 without a body is an error
_process_empty_reponse_Only200(response) ==
    IF response.status = 200
    THEN [ret_val |-> APP_SUCCESS, resp_json |-> EmptyObj, message |-> <<>>]
    ELSE [ret_val |-> APP_ERROR, resp_json |-> None,
          message |-> <<"Empty response and no information in the header">>]

_process_empty_reponse(response) ==
    IF response.status = 200 \/ response.status = 204
    THEN [ret_val |-> APP_SUCCESS, resp_json |-> EmptyObj, message |-> <<>>]
    ELSE [ret_val |-> APP_ERROR, resp_json |-> None,
          message |-> <<"Empty response and no information in the header">>]

\* faulty variant: an HTML page with status 200 is a success
_process_html_response_ByStatus(response) ==
    IF response.status = 200
    THEN [ret_val |-> APP_SUCCESS, resp_json |-> EmptyObj, message |-> <<>>]
    ELSE [ret_val |-> APP_ERROR, resp_json |-> None,
          message |-> <<"Please check the asset configuration parameters">>]

_process_html_response(response) ==
    [ret_val |-> APP_ERROR, resp_json |-> None,
     message |-> <<"Please check the asset configuration parameters">>]

_process_json_response(r) ==
    IF r.body.kind # "json"
    THEN [ret_val |-> APP_ERROR, resp_json |-> None,
          message |-> <<"Unable to parse JSON response">>]
    ELSE IF 200 <= r.status /\ r.status < 399
    THEN [ret_val |-> APP_SUCCESS, resp_json |-> r.body.val, message |-> <<>>]
    ELSE IF r.body.val.kind = "obj" /\ "message" \in DOMAIN r.body.val
    THEN [ret_val |-> APP_ERROR, resp_json |-> None, message |-> r.body.val["message"]]
    ELSE [ret_val |-> APP_ERROR, resp_json |-> None,
          message |-> <<"Error from server">>]

_process_response(r) ==
    IF r.ctype = CT_JSON THEN _process_json_response(r)
    ELSE IF r.ctype = CT_HTML THEN _process_html_response(r)
    ELSE IF r.body.kind = "empty" THEN _process_empty_reponse(r)
    ELSE [ret_val |-> APP_ERROR, resp_json |-> None,
          message |-> <<"Can't process response from server">>]

---------------------------------------------------------------------------
(* Resilient Request Executor *)

\* faulty variant: the session headers are not merged into the headers of the request
RequestHeaders_NoSession(headers, session) ==
    IF headers = None THEN Dict({}) ELSE headers

\* the headers of the request: headers (None becomes {}) updated with self._headers
RequestHeaders(headers, session) ==
    DictUpdate(IF headers = None THEN Dict({}) ELSE headers, session)

\* one attempt: o is what requests did (a response or TransportError), prev is
\* self._response before the attempt
_make_rest_call(o, prev) ==
    IF o = TransportError
    THEN [ret_val |-> APP_ERROR, resp_json |-> None,
          message |-> <<"Error Connecting to Zscaler server">>, _response |-> prev]
    ELSE _process_response(o) @@ [_response |-> o]

\* the result is [kind |-> "int", val |-> n], None, or Raise (IndexError, ValueError)
Raise == [kind |-> "raise"]
IntVal(n) == [kind |-> "int", val |-> n]

\* faulty variant: minutes are taken for seconds
_parse_retry_time_NoMinutes(retry_time) ==
    LET parts == SplitWs(retry_time) IN
    IF Len(parts) < 2 THEN Raise
    ELSE IF Lower(parts[2]) \in {<<"seconds">>, <<"minutes">>}
    THEN IF IntOk(parts[1]) THEN IntVal(IntOf(parts[1])) ELSE Raise
    ELSE None

_parse_retry_time(retry_time) ==
    LET parts == SplitWs(retry_time) IN
    IF Len(parts) < 2 THEN Raise
    ELSE IF Lower(parts[2]) = <<"seconds">>
    THEN IF IntOk(parts[1]) THEN IntVal(IntOf(parts[1])) ELSE Raise
    ELSE IF Lower(parts[2]) = <<"minutes">>
    THEN IF IntOk(parts[1]) THEN IntVal(IntOf(parts[1]) * 60) ELSE Raise
    ELSE None

Return(ret_val, response) == [op |-> "return", ret_val |-> ret_val, response |-> response]
Retry(seconds) == [op |-> "retry", wait |-> seconds]
Throw == [op |-> "raise"]

\* faulty variant: a 409 is returned to the caller as a failure
OnLock_NoRetry(res) == Return(res.ret_val, res.resp_json)

\* the helper on a 409 (lock not available): sleep a second and call again
OnLock(res) == Retry(1)

\* the helper on a 429 (rate limit exceeded): sleep as long as the Retry-After of
\* the body says and call again
OnRateLimit(res) ==
    LET r == res._response IN
    IF r.body.kind # "json" \/ r.body.val.kind # "obj" THEN Throw
    ELSE IF "Retry-After" \notin DOMAIN r.body.val
    THEN Return(res.ret_val, res.resp_json)
    ELSE LET retry_time == r.body.val["Retry-After"]
             seconds_to_wait == _parse_retry_time(retry_time)
         IN IF seconds_to_wait = Raise THEN Throw
            ELSE IF seconds_to_wait = None \/ seconds_to_wait.val < 0
            THEN Return(retry_time, res.resp_json)
            ELSE Retry(seconds_to_wait.val)

\* faulty variant: a failure with status 500 is retried like a 409
_make_rest_call_helper_RetryOn500(res) ==
    IF ~is_fail(res.ret_val) THEN Return(res.ret_val, res.resp_json)
    ELSE IF res._response = None THEN Return(res.ret_val, res.resp_json)
    ELSE IF res._response.status \in {409, 500} THEN OnLock(res)
    ELSE IF res._response.status = 429 THEN OnRateLimit(res)
    ELSE Return(res.ret_val, res.resp_json)

\* what the helper does with the result res of an attempt: return to the caller,
\* sleep and call again, or let an exception escape
_make_rest_call_helper(res) ==
    IF ~is_fail(res.ret_val) THEN Return(res.ret_val, res.resp_json)
    ELSE IF res._response = None THEN Return(res.ret_val, res.resp_json)
    ELSE IF res._response.status = 409 THEN OnLock(res)
    ELSE IF res._response.status = 429 THEN OnRateLimit(res)
    ELSE Return(res.ret_val, res.resp_json)

Request(method, endpoint, params, data) ==
    [method |-> method, endpoint |-> endpoint, headers |-> None,
     params |-> params, data |-> data]

\* the request of an attempt as it leaves the client
OnWire(c, session) ==
    [method |-> c.method, endpoint |-> c.endpoint,
     headers |-> RequestHeaders(c.headers, session),
     params |-> c.params, data |-> c.data]

StatusOf(o) == IF o = TransportError THEN 0 ELSE o.status

\* a new invocation of the helper
StartCall(c) ==
    /\ call' = c
    /\ attempts' = 0
    /\ waits' = <<>>
    /\ outcomes' = <<>>
    /\ wire' = None
    /\ ret' = None

---------------------------------------------------------------------------
(* Session Manager *)

ApiKeys ==
    { <<"a", "b", "c", "d", "e", "f", "g", "h", "i", "j", "k", "l">>,
      <<"a", "b", "c", "d", "e", "f", "g", "h", "i", "j">> }

\* str(int(time.time() * 1000))
Timestamps ==
    { <<"1", "7", "9", "9", "0", "0", "0", "9", "9", "9", "9", "9", "8">>,
      <<"1", "7", "9", "9", "0", "0", "0", "0", "0", "0", "0", "1", "3">> }

RECURSIVE DigitsOf(_)
\* str(n) for n >= 0
DigitsOf(n) ==
    LET d == <<"0", "1", "2", "3", "4", "5", "6", "7", "8", "9">>[(n % 10) + 1]
    IN IF n < 10 THEN <<d>> ELSE Append(DigitsOf(n \div 10), d)

RECURSIVE ZFill(_, _)
\* str.zfill(width)
ZFill(s, width) == IF Len(s) >= width THEN s ELSE ZFill(<<"0">> \o s, width)

\* the result is [now, key], or Raise when an index is outside api_key
\* faulty variant: the digits of r index api_key without the offset 2
_obfuscate_api_key_NoOffset(api_key, now) ==
    LET n == SubSeq(now, Len(now) - 5, Len(now))
        r == ZFill(DigitsOf(NatOf(n) \div 2), 6)
        ok == \A i \in 1..Len(n) : DigitVal(n[i]) < Len(api_key)
    IN IF ~ok THEN Raise
       ELSE [now |-> now,
             key |-> [i \in 1..Len(n) |-> api_key[DigitVal(n[i]) + 1]]
                     \o [j \in 1..Len(r) |-> api_key[DigitVal(r[j]) + 1]]]

_obfuscate_api_key(api_key, now) ==
    LET n == SubSeq(now, Len(now) - 5, Len(now))
        r == ZFill(DigitsOf(NatOf(n) \div 2), 6)
        ok == /\ \A i \in 1..Len(n) : DigitVal(n[i]) < Len(api_key)
              /\ \A j \in 1..Len(r) : DigitVal(r[j]) + 2 < Len(api_key)
    IN IF ~ok THEN Raise
       ELSE [now |-> now,
             key |-> [i \in 1..Len(n) |-> api_key[DigitVal(n[i]) + 1]]
                     \o [j \in 1..Len(r) |-> api_key[DigitVal(r[j]) + 2 + 1]]]

\* the Set-Cookie headers the gateway of the model sends
SetCookieValues ==
    { <<"s", ";", "p">>,
      <<"s", " ", ";", " ", "p">> }

\* self._response.headers['Set-Cookie'].split(';')[0].strip()
CookieOf(set_cookie) == Strip(SplitOn(set_cookie, ";")[1])

LoginOutcomes ==
    {TransportError}
    \cup {Resp(200, CT_JSON, JsonBody(EmptyObj), c) : c \in {{}} \cup {{v} : v \in SetCookieValues}}
    \cup Failures
    \cup {Resp(429, CT_JSON, JsonBody(Message(<<"rate">>) @@ ("Retry-After" :> <<"3", " ", "hours">>)),
               {<<"s", ";", "p">>})}

---------------------------------------------------------------------------
(* Endpoint Normalizer *)

HTTP == "http://"
HTTPS == "https://"

\* the action parameters (ip, url) of the model
RawInputs ==
    { <<HTTP, "a.com", ",", " ", HTTPS, "b.com">>,
      <<"a.com">>,
      <<"b.com", ",", "b.com">>,
      <<" ", ",">>,
      <<HTTP, "x*1024">>,
      <<"a.com", ",", "x*1025">>,
      <<"a.com", ",", " ", HTTP, " ">> }

\* the characters an atom stands for ("x*1024" is "x" * 1024)
AtomLen(a) ==
    CASE a = HTTP -> 7
      [] a = HTTPS -> 8
      [] a = "a.com" -> 5
      [] a = "b.com" -> 5
      [] a = "c.com" -> 5
      [] a = "x*1024" -> 1024
      [] a = "x*1025" -> 1025
      [] OTHER -> 1

RECURSIVE StrLen(_)
\* len(s)
StrLen(s) == IF s = <<>> THEN 0 ELSE AtomLen(Head(s)) + StrLen(Tail(s))

\* [x.strip() for x in endpoints.split(',')] and filter(None, ...)
SplitEndpoints(raw) ==
    LET pieces == SplitOn(raw, ",")
        list_endpoints == [i \in 1..Len(pieces) |-> Strip(pieces[i])]
    IN SelectSeq(list_endpoints, NonEmpty)

TruncateOne(e) ==
    IF e # <<>> /\ Head(e) = HTTP THEN Tail(e)
    ELSE IF e # <<>> /\ Head(e) = HTTPS THEN Tail(e)
    ELSE e

_truncate_protocol(endpoints) == [i \in 1..Len(endpoints) |-> TruncateOne(endpoints[i])]

MAX_URL_LEN == 1024

\* faulty variant: a value of 1024 characters is rejected as well
_check_for_overlength_Inclusive(endpoints) ==
    IF \E i \in 1..Len(endpoints) : StrLen(endpoints[i]) >= MAX_URL_LEN
    THEN APP_ERROR
    ELSE APP_SUCCESS

\* APP_ERROR when a value is longer than 1024 characters
_check_for_overlength(endpoints) ==
    IF \E i \in 1..Len(endpoints) : StrLen(endpoints[i]) > MAX_URL_LEN
    THEN APP_ERROR
    ELSE APP_SUCCESS

---------------------------------------------------------------------------
(* The gateway *)

A == <<"a.com">>
B == <<"b.com">>

Custom(urls) ==
    [id |-> "CUSTOM_01", configuredName |-> "Custom-1", superCategory |-> "USER_DEFINED",
     dbCategorizedUrls |-> urls]

News == [id |-> "NEWS", superCategory |-> "NEWS_AND_MEDIA"]

GatewayOf(urls) ==
    [blacklistUrls |-> urls, whitelistUrls |-> urls, categories |-> <<News, Custom(urls)>>]

\* the collections of the gateway when the run starts
GatewayStates == {GatewayOf(<<>>), GatewayOf(<<A>>), GatewayOf(<<B, A>>)}

\* the url_category parameters of the model (None: the parameter is absent)
NoCategory == "None"
CategoryParams == {NoCategory, "Custom-1", "Missing"}

FetchEndpoint(target) ==
    CASE target = "Blocklist" -> <<"/api/v1/security/advanced">>
      [] target = "Allowlist" -> <<"/api/v1/security">>
      [] target = "Category" -> <<"/api/v1/urlCategories">>

\* what the gateway holds for the collection a fetch asks for
FetchPayload(target, g) ==
    CASE target = "Blocklist" -> Obj("blacklistUrls" :> g.blacklistUrls)
      [] target = "Allowlist" -> Obj("whitelistUrls" :> g.whitelistUrls)
      [] target = "Category" -> List(g.categories)

FetchOutcomes(target, g) ==
    {TransportError, JsonResp(200, FetchPayload(target, g)), R204} \cup CoreFailures

\* the gateway after it has accepted the write request c
ApplyWrite(g, target, c) ==
    CASE target = "Blocklist" ->
           [g EXCEPT !.blacklistUrls =
               IF c.params = "ADD_TO_LIST"
               THEN SeqOf(ToSet(g.blacklistUrls) \cup ToSet(c.data["blacklistUrls"]))
               ELSE SeqOf(ToSet(g.blacklistUrls) \ ToSet(c.data["blacklistUrls"]))]
      [] target = "Allowlist" ->
           [g EXCEPT !.whitelistUrls = c.data["whitelistUrls"]]
      [] target = "Category" ->
           [g EXCEPT !.categories =
               [i \in 1..Len(g.categories) |->
                   IF <<"/api/v1/urlCategories/", g.categories[i].id>> = c.endpoint
                   THEN c.data ELSE g.categories[i]]]

\* the endpoint that another administrator adds
C == <<"c.com">>

\* the gateway after another administrator has added C to the collection of the
\* target (for a category: to the category with the id)
AdministratorAdds(g, target, id) ==
    CASE target = "Blocklist" -> [g EXCEPT !.blacklistUrls = Append(@, C)]
      [] target = "Allowlist" -> [g EXCEPT !.whitelistUrls = Append(@, C)]
      [] target = "Category" ->
           [g EXCEPT !.categories =
               [i \in 1..Len(g.categories) |->
                   IF g.categories[i].id = id
                   THEN ("dbCategorizedUrls" :>
                            Append(IF "dbCategorizedUrls" \in DOMAIN g.categories[i]
                                   THEN g.categories[i].dbCategorizedUrls ELSE <<>>, C))
                        @@ g.categories[i]
                   ELSE g.categories[i]]]

\* the answers of a gateway that accepts a write
Accepting == {JsonResp(200, EmptyObj), R204, R204Json}

WriteOutcomes == {TransportError} \cup Accepting \cup CoreFailures

\* a categorization record of the urlLookup
Record(url) == [url |-> url]

\* the form in which the gateway holds a url that it was asked about
Canonical(url) == url \o <<"/">>

\* the records the gateway answers a urlLookup of endpoints with: one for each
\* endpoint, its url as it was asked or in the form of the gateway
LookupPayloads(endpoints) ==
    { List([i \in 1..Len(endpoints) |-> Record(endpoints[i])]),
      List([i \in 1..Len(endpoints) |-> Record(Canonical(endpoints[i]))]) }

LookupOutcomes(endpoints) ==
    {TransportError, R204} \cup CoreFailures
    \cup {JsonResp(200, p) : p \in LookupPayloads(endpoints)}

---------------------------------------------------------------------------
(* List Mutation Engine *)

\* faulty variant: a removal keeps the endpoints that are absent from the list
_filter_endpoints_Swapped(to_add, existing, action) ==
    LET endpoints == SeqOf(ToSet(to_add) \ ToSet(existing))
    IN IF endpoints = <<>>
       THEN [ret_val |-> APP_SUCCESS, endpoints |-> None,
             summary |-> [updated |-> <<>>, ignored |-> to_add],
             message |-> <<"contains", action>>]
       ELSE [ret_val |-> APP_SUCCESS, endpoints |-> List(endpoints),
             summary |-> None, message |-> <<>>]

\* faulty variant: an empty result is handed on like any other
_filter_endpoints_NoShortCircuit(to_add, existing, action) ==
    LET endpoints ==
            IF action = "REMOVE_FROM_LIST"
            THEN SeqOf(ToSet(existing) \ (ToSet(existing) \ ToSet(to_add)))
            ELSE SeqOf(ToSet(to_add) \ ToSet(existing))
    IN [ret_val |-> APP_SUCCESS, endpoints |-> List(endpoints),
        summary |-> None, message |-> <<>>]

\* the result: the status, the endpoints to write (None when there are none) and
\* the summary set in that case
_filter_endpoints(to_add, existing, action) ==
    LET endpoints ==
            IF action = "REMOVE_FROM_LIST"
            THEN SeqOf(ToSet(existing) \ (ToSet(existing) \ ToSet(to_add)))
            ELSE SeqOf(ToSet(to_add) \ ToSet(existing))
    IN IF endpoints = <<>>
       THEN [ret_val |-> APP_SUCCESS, endpoints |-> None,
             summary |-> [updated |-> <<>>, ignored |-> to_add],
             message |-> <<"contains", action>>]
       ELSE [ret_val |-> APP_SUCCESS, endpoints |-> List(endpoints),
             summary |-> None, message |-> <<>>]

\* faulty variant: the fetched list is not read
GetList_Missing(obj, key) == <<>>

\* dict.get(key, [])
GetList(obj, key) == IF key \in DOMAIN obj THEN obj[key] ELSE <<>>

\* faulty variant: the first category that matches by configuredName or by id
_get_category_FirstMatch(response, category) ==
    IF response.kind = "None" THEN Raise
    ELSE IF response.kind = "obj"
    THEN IF DOMAIN response = {"kind"} THEN None ELSE Raise
    ELSE LET cats == response.items
             either == {i \in 1..Len(cats) :
                          \/ /\ "configuredName" \in DOMAIN cats[i]
                             /\ cats[i].configuredName = category
                          \/ cats[i].id = category}
             first(S) == CHOOSE i \in S : \A j \in S : i <= j
         IN IF either # {} THEN cats[first(either)] ELSE None

\* faulty variant: without a match the first category of the list is taken
_get_category_FirstOnMiss(response, category) ==
    IF response.kind = "None" THEN Raise
    ELSE IF response.kind = "obj"
    THEN IF DOMAIN response = {"kind"} THEN None ELSE Raise
    ELSE LET cats == response.items
             byName == {i \in 1..Len(cats) :
                          "configuredName" \in DOMAIN cats[i]
                          /\ cats[i].configuredName = category}
             byId == {i \in 1..Len(cats) : cats[i].id = category}
             first(S) == CHOOSE i \in S : \A j \in S : i <= j
         IN IF byName # {} THEN cats[first(byName)]
            ELSE IF byId # {} THEN cats[first(byId)]
            ELSE cats[1]

\* the category of the fetched list that the parameter names: Raise when the
\* payload cannot be searched, None when no category matches
_get_category(response, category) ==
    IF response.kind = "None" THEN Raise
    ELSE IF response.kind = "obj"
    THEN IF DOMAIN response = {"kind"} THEN None ELSE Raise
    ELSE LET cats == response.items
             byName == {i \in 1..Len(cats) :
                          "configuredName" \in DOMAIN cats[i]
                          /\ cats[i].configuredName = category}
             byId == {i \in 1..Len(cats) : cats[i].id = category}
             first(S) == CHOOSE i \in S : \A j \in S : i <= j
         IN IF byName # {} THEN cats[first(byName)]
            ELSE IF byId # {} THEN cats[first(byId)]
            ELSE None

\* faulty variant: only the delta is written
NewCollection_Delta(existing, filtered_endpoints, action) == filtered_endpoints

\* the new collection of the allow list or of a category
NewCollection(existing, filtered_endpoints, action) ==
    IF action = "ADD_TO_LIST"
    THEN SeqOf(ToSet(existing \o filtered_endpoints))
    ELSE SeqOf(ToSet(existing) \ ToSet(filtered_endpoints))

\* faulty variant: the category is written with its id and its urls only
WriteRequest_UrlsOnly(target, action, existing, filtered_endpoints, category) ==
    CASE target = "Blocklist" ->
           Request("post", <<"/api/v1/security/advanced/blacklistUrls">>, action,
                   Obj("blacklistUrls" :> filtered_endpoints))
      [] target = "Allowlist" ->
           Request("put", <<"/api/v1/security">>, None,
                   Obj("whitelistUrls" :> NewCollection(existing, filtered_endpoints, action)))
      [] target = "Category" ->
           Request("put", <<"/api/v1/urlCategories/", category.id>>, None,
                   [id |-> category.id,
                    dbCategorizedUrls |-> NewCollection(existing, filtered_endpoints, action)])

\* the write request of _amend_blocklist, _amend_allowlist, _amend_category
WriteRequest(target, action, existing, filtered_endpoints, category) ==
    CASE target = "Blocklist" ->
           Request("post", <<"/api/v1/security/advanced/blacklistUrls">>, action,
                   Obj("blacklistUrls" :> filtered_endpoints))
      [] target = "Allowlist" ->
           Request("put", <<"/api/v1/security">>, None,
                   Obj("whitelistUrls" :> NewCollection(existing, filtered_endpoints, action)))
      [] target = "Category" ->
           Request("put", <<"/api/v1/urlCategories/", category.id>>, None,
                   ("dbCategorizedUrls" :> NewCollection(existing, filtered_endpoints, action))
                   @@ category)

\* faulty variant: every requested endpoint is reported as ignored
WrittenSummary_AllIgnored(endpoints, filtered_endpoints) ==
    [updated |-> filtered_endpoints, ignored |-> SeqOf(ToSet(endpoints))]

\* summary of a mutation that was written
WrittenSummary(endpoints, filtered_endpoints) ==
    [updated |-> filtered_endpoints,
     ignored |-> SeqOf(ToSet(endpoints) \ ToSet(filtered_endpoints))]

ActionIds ==
    {"block_ip", "block_url", "unblock_ip", "unblock_url",
     "allow_ip", "allow_url", "unallow_ip", "unallow_url"}

UrlActions == {"block_url", "unblock_url", "allow_url", "unallow_url"}

LookupIds == {"lookup_ip", "lookup_url"}

\* the action identifiers that handle_action() knows
KnownIds ==
    {"test_connectivity", "list_url_categories", "get_report"}
    \cup ActionIds \cup LookupIds

\* the identifiers of the model that handle_action() does not know
UnknownIds == {"block_domain", ""}

ActionOf(action_id) ==
    IF action_id \in {"block_ip", "block_url", "allow_ip", "allow_url"}
    THEN "ADD_TO_LIST" ELSE "REMOVE_FROM_LIST"

TargetOf(action_id, category) ==
    IF category # NoCategory THEN "Category"
    ELSE IF action_id \in {"block_ip", "block_url", "unblock_ip", "unblock_url"}
    THEN "Blocklist" ELSE "Allowlist"

---------------------------------------------------------------------------
(* The connector run *)

LogoutOutcomes ==
    {TransportError, JsonResp(200, EmptyObj), R204, R429Text} \cup CoreFailures

\* the success a call gets from a faithful gateway
Faithful(position) ==
    CASE position = "login" ->
           {Resp(200, CT_JSON, JsonBody(EmptyObj), {<<"s", ";", "p">>})}
      [] position = "fetch" -> {JsonResp(200, FetchPayload(frame.target, gateway))}
      [] position = "write" -> Accepting
      [] position = "lookup" -> {JsonResp(200, p) : p \in LookupPayloads(frame.endpoints)}
      [] position = "blocklist" -> {JsonResp(200, FetchPayload("Blocklist", gateway))}

\* the answers the call in progress can get
OutcomesOf(position) ==
    IF position = "logout" THEN LogoutOutcomes
    ELSE IF faithful THEN Faithful(position)
    ELSE CASE position = "login" -> LoginOutcomes
           [] position = "fetch" -> FetchOutcomes(frame.target, gateway)
           [] position = "write" -> WriteOutcomes
           [] position = "lookup" -> LookupOutcomes(frame.endpoints)
           [] position = "blocklist" -> FetchOutcomes("Blocklist", gateway)

\* the calls of an action handler
ActionCalls == {"fetch", "write", "lookup", "blocklist"}

\* no invocation of the helper is started or continued
NoCall == UNCHANGED <<call, attempts, waits, outcomes, wire, ret, _response>>

\* _make_rest_call_helper(): one attempt of the call in progress, answered by the
\* gateway or not at all, then the sleep before the next attempt or the return
Execute ==
    /\ pc \in {"login", "logout"} \cup ActionCalls
    /\ ret = None
    /\ attempts < MaxAttempts
    /\ \E o \in OutcomesOf(pc) :
         LET res == _make_rest_call(o, _response)
             d == _make_rest_call_helper(res)
         IN /\ attempts' = attempts + 1
            /\ outcomes' = Append(outcomes, StatusOf(o))
            /\ wire' = OnWire(call, _headers)
            /\ _response' = res._response
            /\ waits' = IF d.op = "retry" THEN Append(waits, d.wait) ELSE waits
            /\ ret' = IF d.op = "return"
                      THEN [ret_val |-> d.ret_val, response |-> d.response]
                      ELSE ret
            /\ pc' = IF d.op = "raise" THEN "exception" ELSE pc
            /\ action_result' =
                 IF pc \in ActionCalls /\ is_fail(res.ret_val)
                 THEN ActionResult(APP_ERROR, res.message, action_result.summary)
                 ELSE action_result
            /\ gateway' = IF pc = "write" /\ o \in Accepting
                          THEN ApplyWrite(gateway, frame.target, call)
                          ELSE gateway
    /\ UNCHANGED <<call, _headers, init_status, login, nactions, frame, issued,
                   _category, _allowlist, faithful, previous, finalize_status>>

\* initialize() and _init_session() up to the login call
Initialize ==
    /\ pc = "constructed"
    /\ _headers' = Dict({})
    /\ \E api_key \in ApiKeys, now \in Timestamps :
         LET o == _obfuscate_api_key(api_key, now) IN
         IF o = Raise
         THEN /\ init_status' = APP_ERROR
              /\ pc' = "init_failed"
              /\ NoCall
         ELSE /\ StartCall(Request("post", <<"/api/v1/authenticatedSession">>, None,
                                   [apiKey |-> o.key, timestamp |-> o.now]))
              /\ pc' = "login"
              /\ UNCHANGED <<init_status, _response>>
    /\ UNCHANGED <<login, nactions, faithful, finalize_status>>
    /\ UNCHANGED actionVars

\* the gateway accepted the login: the last attempt got a response that the
\* classifier takes for a success
Accepted ==
    /\ outcomes # <<>>
    /\ outcomes[Len(outcomes)] # 0
    /\ ~is_fail(_process_response(_response).ret_val)

\* the rest of _init_session(), after the login call
InitSession ==
    /\ pc = "login"
    /\ ret # None
    /\ login' = IF Accepted THEN "accepted" ELSE "rejected"
    /\ IF is_fail(ret.ret_val)
       THEN /\ init_status' = APP_ERROR
            /\ pc' = "init_failed"
            /\ UNCHANGED _headers
       ELSE IF _response.cookie = {}
       THEN pc' = "exception" /\ UNCHANGED <<_headers, init_status>>
       ELSE /\ _headers' = Dict({<<"cookie", CookieOf(CHOOSE v \in _response.cookie : TRUE)>>})
            /\ init_status' = APP_SUCCESS
            /\ pc' = "ready"
    /\ NoCall
    /\ UNCHANGED <<nactions, faithful, finalize_status>>
    /\ UNCHANGED actionVars

\* handle_action() invocations that the model follows in the run
ActionLimit == IF faithful THEN MaxFaithfulActions ELSE MaxActions

\* the parameters of a handle_action() that follows another one in the run are
\* those of the first
Repeats(action_id, raw, category) ==
    IF frame = None THEN TRUE
    ELSE /\ frame.action_id = action_id
         /\ frame.raw = raw
         /\ frame.category = category

\* what is kept of the invocation that ends when the next handle_action() starts
Ended == IF frame = None THEN None
         ELSE [frame |-> frame, action_result |-> action_result]

\* the locals of handle_action() and of the action handler; ret_val is what
\* handle_action() returns (Unset until then)
Frame(action_id, raw, category, action, target, endpoints) ==
    [action_id |-> action_id, raw |-> raw, category |-> category,
     action |-> action, target |-> target, endpoints |-> endpoints,
     existing |-> None, filtered |-> None, response |-> None, data |-> None,
     ret_val |-> Unset]

\* the handler returns ret_val
Returned(f, ret_val) == [f EXCEPT !.ret_val = ret_val]

\* _handle_test_connectivity()
TestConnectivity ==
    /\ pc = "ready"
    /\ nactions < ActionLimit
    /\ frame = None
    /\ nactions' = nactions + 1
    /\ NoCall
    /\ frame' = None
    /\ issued' = <<>>
    /\ action_result' = ActionResult(APP_SUCCESS, <<>>, None)
    /\ UNCHANGED <<pc, _headers, init_status, login, _category, _allowlist, gateway,
                   faithful, previous, finalize_status>>

\* finalize() and _deinit_session() up to the logout call; the locals of the
\* action handlers are gone
Finalize ==
    /\ pc = "ready"
    /\ nactions >= 1
    /\ StartCall(Request("delete", <<"/api/v1/authenticatedSession">>, None, None))
    /\ pc' = "logout"
    /\ frame' = None
    /\ previous' = None
    /\ UNCHANGED <<_headers, _response, init_status, login, nactions>>
    /\ UNCHANGED <<faithful, finalize_status>>
    /\ UNCHANGED <<issued, action_result, _category, _allowlist, gateway>>

\* the rest of _deinit_session(), after the logout call
DeinitSession ==
    /\ pc = "logout"
    /\ ret # None
    /\ pc' = "done"
    /\ finalize_status' = APP_SUCCESS
    /\ NoCall
    /\ UNCHANGED <<_headers, init_status, login, nactions, faithful>>
    /\ UNCHANGED actionVars

\* _block_endpoint, _unblock_endpoint, _allowlist_endpoint, _unallow_endpoint up to
\* the fetch call
HandleListAction ==
    /\ pc = "ready"
    /\ nactions < ActionLimit
    /\ nactions' = nactions + 1
    /\ previous' = Ended
    /\ \E action_id \in ActionIds, raw \in RawInputs, category \in CategoryParams :
         LET endpoints == _truncate_protocol(SplitEndpoints(raw))
             target == TargetOf(action_id, category)
         IN /\ Repeats(action_id, raw, category)
            /\ IF action_id \in UrlActions /\ is_fail(_check_for_overlength(endpoints))
               THEN /\ frame' = Returned(Frame(action_id, raw, category,
                                               ActionOf(action_id), target, endpoints),
                                         APP_ERROR)
                    /\ action_result' = ActionResult(APP_ERROR, <<"Max allowed length">>, None)
                    /\ issued' = <<>>
                    /\ NoCall
                    /\ pc' = "ready"
               ELSE /\ frame' = Frame(action_id, raw, category, ActionOf(action_id),
                                      target, endpoints)
                    /\ action_result' = ActionResult(Unset, <<>>, None)
                    /\ StartCall(Request("get", FetchEndpoint(target), None, None))
                    /\ issued' = <<<<"get", FetchEndpoint(target)>>>>
                    /\ pc' = "fetch"
                    /\ UNCHANGED _response
    /\ UNCHANGED <<_headers, init_status, login, _category, _allowlist, gateway,
                   faithful, finalize_status>>

\* _handle_lookup_ip, _handle_lookup_url and _lookup_endpoint up to the urlLookup
\* call
HandleLookup ==
    /\ pc = "ready"
    /\ nactions < ActionLimit
    /\ nactions' = nactions + 1
    /\ previous' = Ended
    /\ \E action_id \in LookupIds, raw \in RawInputs :
         LET endpoints == IF action_id = "lookup_url"
                          THEN _truncate_protocol(SplitEndpoints(raw))
                          ELSE SplitEndpoints(raw)
         IN /\ Repeats(action_id, raw, NoCategory)
            /\ IF action_id = "lookup_url" /\ is_fail(_check_for_overlength(endpoints))
               THEN /\ frame' = Returned(Frame(action_id, raw, NoCategory, "LOOKUP",
                                               "Lookup", endpoints), APP_ERROR)
                    /\ action_result' = ActionResult(APP_ERROR, <<"Max allowed length">>, None)
                    /\ issued' = <<>>
                    /\ NoCall
                    /\ pc' = "ready"
               ELSE /\ frame' = Frame(action_id, raw, NoCategory, "LOOKUP", "Lookup",
                                      endpoints)
                    /\ action_result' =
                         IF endpoints = <<>>
                         THEN ActionResult(APP_ERROR, <<"Please provide valid list of URL(s)">>,
                                           None)
                         ELSE ActionResult(Unset, <<>>, None)
                    /\ StartCall(Request("post", <<"/api/v1/urlLookup">>, None,
                                         List(endpoints)))
                    /\ issued' = <<<<"post", <<"/api/v1/urlLookup">>>>>>
                    /\ pc' = "lookup"
                    /\ UNCHANGED _response
    /\ UNCHANGED <<_headers, init_status, login, _category, _allowlist, gateway,
                   faithful, finalize_status>>

\* handle_action() with an action identifier that matches none of its branches:
\* ret_val keeps its initial value, no handler runs and no ActionResult is added
HandleUnknown ==
    /\ pc = "ready"
    /\ nactions < ActionLimit
    /\ nactions' = nactions + 1
    /\ previous' = Ended
    /\ \E action_id \in UnknownIds :
         /\ Repeats(action_id, <<>>, NoCategory)
         /\ frame' = Returned(Frame(action_id, <<>>, NoCategory, "NONE", "None", <<>>),
                              APP_SUCCESS)
    /\ action_result' = ActionResult(Unset, <<>>, None)
    /\ issued' = <<>>
    /\ NoCall
    /\ UNCHANGED <<pc, _headers, init_status, login, _category, _allowlist, gateway,
                   faithful, finalize_status>>

\* _lookup_endpoint after the urlLookup call, up to the call that gets the block
\* list
LookupBlocklist ==
    /\ pc = "lookup"
    /\ ret # None
    /\ IF is_fail(ret.ret_val)
       THEN /\ pc' = "ready"
            /\ frame' = Returned(frame, ret.ret_val)
            /\ NoCall
            /\ UNCHANGED issued
       ELSE /\ frame' = [frame EXCEPT !.response = ret.response]
            /\ StartCall(Request("get", <<"/api/v1/security/advanced">>, None,
                                 List(frame.endpoints)))
            /\ issued' = Append(issued, <<"get", <<"/api/v1/security/advanced">>>>)
            /\ pc' = "blocklist"
            /\ UNCHANGED _response
    /\ UNCHANGED <<_headers, init_status, login, nactions, action_result, _category,
                   _allowlist, gateway, faithful, previous, finalize_status>>

\* the records of the urlLookup after the loop over the endpoints: a record whose
\* url is an endpoint e gets blocklisted = (e in the block list)
MarkBlocklisted(records, endpoints, blacklistUrls) ==
    [i \in 1..Len(records) |->
        IF records[i].url \in ToSet(endpoints)
        THEN ("blocklisted" :> (records[i].url \in ToSet(blacklistUrls))) @@ records[i]
        ELSE records[i]]

\* the items of the response of the urlLookup: enumerate() of a list, or of the {}
\* that the classifier makes of an empty response
ItemsOf(response) == IF response.kind = "list" THEN response.items ELSE <<>>

\* the rest of _lookup_endpoint, after the call that gets the block list; without
\* a payload (None) the loop over the endpoints and update_data() raise
LookupDone ==
    /\ pc = "blocklist"
    /\ ret # None
    /\ IF is_fail(ret.ret_val)
       THEN /\ pc' = "ready"
            /\ frame' = Returned(frame, ret.ret_val)
            /\ UNCHANGED action_result
       ELSE IF frame.response = None \/ (frame.endpoints # <<>> /\ ret.response = None)
       THEN /\ pc' = "exception"
            /\ UNCHANGED <<frame, action_result>>
       ELSE /\ frame' = [frame EXCEPT !.data =
                            List(MarkBlocklisted(ItemsOf(frame.response), frame.endpoints,
                                 IF ret.response = None THEN <<>>
                                 ELSE GetList(ret.response, "blacklistUrls"))),
                                       !.ret_val = APP_SUCCESS]
            /\ action_result' = ActionResult(APP_SUCCESS, <<"Successfully completed lookup">>,
                                             action_result.summary)
            /\ pc' = "ready"
    /\ NoCall
    /\ UNCHANGED <<_headers, init_status, login, nactions, issued, _category,
                   _allowlist, gateway, faithful, previous, finalize_status>>

\* _check_blocklist, _check_allowlist, _check_category after the fetch call, and the
\* _amend_* that called it up to the write call
CheckAndAmend ==
    /\ pc = "fetch"
    /\ ret # None
    /\ LET isCat == frame.target = "Category"
           cat == _get_category(ret.response, frame.category)
           found == IF isCat THEN cat ELSE ret.response
           urls == CASE frame.target = "Blocklist" -> GetList(found, "blacklistUrls")
                     [] frame.target = "Allowlist" -> GetList(found, "whitelistUrls")
                     [] frame.target = "Category" -> GetList(found, "dbCategorizedUrls")
           f == _filter_endpoints(frame.endpoints, urls, frame.action)
       IN IF is_fail(ret.ret_val)
          THEN /\ pc' = "ready"
               /\ frame' = Returned(frame, ret.ret_val)
               /\ NoCall
               /\ UNCHANGED <<issued, action_result, _category, _allowlist>>
          ELSE IF (IF isCat THEN cat = Raise ELSE ret.response.kind # "obj")
          THEN /\ pc' = "exception"
               /\ NoCall
               /\ UNCHANGED <<frame, issued, action_result, _category, _allowlist>>
          ELSE IF isCat /\ cat = None
          THEN /\ pc' = "ready"
               /\ action_result' = ActionResult(APP_ERROR, <<"Unable to find category">>,
                                                action_result.summary)
               /\ frame' = Returned(frame, APP_ERROR)
               /\ NoCall
               /\ UNCHANGED <<issued, _category, _allowlist>>
          ELSE /\ _category' = IF isCat THEN found ELSE _category
               /\ _allowlist' = IF frame.target = "Allowlist" THEN List(urls) ELSE _allowlist
               /\ IF f.endpoints = None
                  THEN /\ frame' = [frame EXCEPT !.existing = List(urls),
                                                    !.ret_val = f.ret_val]
                       /\ action_result' = ActionResult(f.ret_val, f.message, f.summary)
                       /\ pc' = "ready"
                       /\ NoCall
                       /\ UNCHANGED issued
                  ELSE LET w == WriteRequest(frame.target, frame.action, urls,
                                             f.endpoints.items, found)
                       IN /\ frame' = [frame EXCEPT !.existing = List(urls),
                                                    !.filtered = f.endpoints]
                          /\ StartCall(w)
                          /\ issued' = Append(issued, <<w.method, w.endpoint>>)
                          /\ pc' = "write"
                          /\ UNCHANGED <<action_result, _response>>
    /\ UNCHANGED <<_headers, init_status, login, nactions, gateway,
                   faithful, previous, finalize_status>>

\* True when _amend_* takes the result of the write call for a failure
WriteFailed(target, ret_val, response) ==
    IF target = "Blocklist"
    THEN is_fail(ret_val) /\ response.status # 204
    ELSE is_fail(ret_val)

\* the rest of _amend_blocklist, _amend_allowlist, _amend_category after the write
\* call
Amended ==
    /\ pc = "write"
    /\ ret # None
    /\ pc' = "ready"
    /\ action_result' =
         IF WriteFailed(frame.target, ret.ret_val, _response)
         THEN action_result
         ELSE ActionResult(APP_SUCCESS, <<>>,
                           WrittenSummary(frame.endpoints, frame.filtered.items))
    /\ frame' = Returned(frame, IF WriteFailed(frame.target, ret.ret_val, _response)
                                THEN ret.ret_val ELSE APP_SUCCESS)
    /\ NoCall
    /\ UNCHANGED <<_headers, init_status, login, nactions, issued,
                   _category, _allowlist, gateway, faithful, previous, finalize_status>>

\* another administrator changes the collection after this client has fetched it
\* and before the first attempt of its write (a faithful gateway has no other
\* writer)
OtherAdministrator ==
    /\ pc = "write"
    /\ attempts = 0
    /\ ~faithful
    /\ LET id == IF _category = None THEN "" ELSE _category.id
           held == CASE frame.target = "Blocklist" -> ToSet(gateway.blacklistUrls)
                     [] frame.target = "Allowlist" -> ToSet(gateway.whitelistUrls)
                     [] frame.target = "Category" ->
                          UNION {ToSet(GetList(gateway.categories[i], "dbCategorizedUrls")) :
                                    i \in {j \in 1..Len(gateway.categories) :
                                              gateway.categories[j].id = id}}
       IN /\ C \notin held
          /\ gateway' = AdministratorAdds(gateway, frame.target, id)
          /\ gateway' # gateway
    /\ UNCHANGED <<pc, _headers, _response, call, attempts, waits, outcomes, wire, ret,
                   init_status, login, nactions, frame, issued, action_result,
                   _category, _allowlist, faithful, previous, finalize_status>>

---------------------------------------------------------------------------

Init ==
    /\ pc = "constructed"
    /\ _headers = None
    /\ _response = None
    /\ call = None
    /\ attempts = 0
    /\ waits = <<>>
    /\ outcomes = <<>>
    /\ wire = None
    /\ ret = None
    /\ init_status = Unset
    /\ login = "pending"
    /\ nactions = 0
    /\ frame = None
    /\ issued = <<>>
    /\ action_result = ActionResult(Unset, <<>>, None)
    /\ _category = None
    /\ _allowlist = None
    /\ gateway \in GatewayStates
    /\ faithful \in BOOLEAN
    /\ previous = None
    /\ finalize_status = Unset

Next ==
    \/ Initialize
    \/ Execute
    \/ InitSession
    \/ TestConnectivity
    \/ HandleListAction
    \/ CheckAndAmend
    \/ Amended
    \/ HandleLookup
    \/ LookupBlocklist
    \/ LookupDone
    \/ HandleUnknown
    \/ OtherAdministrator
    \/ Finalize
    \/ DeinitSession

Spec == Init /\ [][Next]_vars

\* the helper that has slept makes its next attempt: _make_rest_call_helper calls
\* itself after time.sleep()
LiveSpec == Init /\ [][Next]_vars /\ WF_vars(Execute)

---------------------------------------------------------------------------
(* The functions of the connector on their own: the classifier, the key
   obfuscation and the category resolution, each applied to an input *)

\* the responses the classifier is applied to
Statuses == {200, 204, 301, 398, 399, 404, 409, 429, 500}
ContentTypes == {CT_JSON, CT_HTML, CT_NONE}
Bodies ==
    {EmptyBody, TextBody, JsonBody(EmptyObj), JsonBody(Message(<<"error">>)),
     JsonBody(List(<<>>))}
Responses ==
    {Resp(status, ctype, body, {}) :
        status \in Statuses, ctype \in ContentTypes, body \in Bodies}

\* the api keys and timestamps the obfuscation is applied to
LongApiKeys ==
    { <<"a", "b", "c", "d", "e", "f", "g", "h", "i", "j", "k", "l">>,
      <<"m", "n", "o", "p", "q", "r", "s", "t", "u", "v", "w", "x", "y", "z">> }
MoreTimestamps ==
    Timestamps \cup
    { <<"1", "7", "9", "9", "0", "0", "0", "0", "0", "0", "0", "0", "1">>,
      <<"1", "7", "9", "9", "0", "0", "0", "1", "0", "0", "0", "0", "0">>,
      <<"1", "7", "9", "9", "0", "0", "0", "9", "9", "9", "9", "9", "9">>,
      <<"1", "7", "9", "9", "0", "0", "0", "2", "4", "6", "8", "0", "7">> }

\* the category lists and arguments the resolution is applied to
CategoryRecords ==
    { [id |-> "X"],
      [id |-> "Y", configuredName |-> "X"],
      [id |-> "X", configuredName |-> "Y"],
      [id |-> "Z", configuredName |-> "Z-name"] }
CategoryLists ==
    UNION {[1..n -> CategoryRecords] : n \in 0..MaxCategories}
CategoryArguments == {"X", "Y", "Missing"}

RECURSIVE SeqFrom(_, _)
\* the function f on 1..n as a sequence
SeqFrom(f, n) == IF n = 0 THEN <<>> ELSE Append(SeqFrom(f, n - 1), f[n])

\* _process_response() applied to the response
Classify ==
    /\ pc = "classify"
    /\ ret' = _process_response(_response)
    /\ pc' = "classified"
    /\ UNCHANGED <<_headers, _response, call, attempts, waits, outcomes, wire,
                   init_status, login, nactions, faithful, finalize_status>>
    /\ UNCHANGED actionVars

\* _obfuscate_api_key() applied to the api key, at the time now
Obfuscate ==
    /\ pc = "obfuscate"
    /\ ret' = _obfuscate_api_key(call.api_key, call.now)
    /\ pc' = "obfuscated"
    /\ UNCHANGED <<_headers, _response, call, attempts, waits, outcomes, wire,
                   init_status, login, nactions, faithful, finalize_status>>
    /\ UNCHANGED actionVars

\* the search of _get_category() applied to a fetched list
Resolve ==
    /\ pc = "resolve"
    /\ ret' = _get_category(call.response, call.category)
    /\ pc' = "resolved"
    /\ UNCHANGED <<_headers, _response, call, attempts, waits, outcomes, wire,
                   init_status, login, nactions, faithful, finalize_status>>
    /\ UNCHANGED actionVars

FunctionInit ==
    /\ \/ /\ pc = "classify"
          /\ _response \in Responses
          /\ call = None
       \/ /\ pc = "obfuscate"
          /\ _response = None
          /\ call \in {[api_key |-> k, now |-> t] : k \in LongApiKeys \cup ApiKeys,
                                                   t \in MoreTimestamps}
       \/ /\ pc = "resolve"
          /\ _response = None
          /\ call \in {[response |-> List(SeqFrom(l, Len(l))), category |-> c] :
                           l \in CategoryLists, c \in CategoryArguments}
    /\ _headers = None
    /\ attempts = 0
    /\ waits = <<>>
    /\ outcomes = <<>>
    /\ wire = None
    /\ ret = None
    /\ init_status = Unset
    /\ login = "pending"
    /\ nactions = 0
    /\ frame = None
    /\ issued = <<>>
    /\ action_result = ActionResult(Unset, <<>>, None)
    /\ _category = None
    /\ _allowlist = None
    /\ gateway = GatewayOf(<<>>)
    /\ faithful = FALSE
    /\ previous = None
    /\ finalize_status = Unset

FunctionNext ==
    \/ Classify
    \/ Obfuscate
    \/ Resolve

FunctionSpec == FunctionInit /\ [][FunctionNext]_vars

---------------------------------------------------------------------------
(* The claims *)

Last(s) == s[Len(s)]
Front(s) == SubSeq(s, 1, Len(s) - 1)
Ones(n) == [i \in 1..n |-> 1]
AllLocked(s) == \A i \in 1..Len(s) : s[i] = 409

\* C1: an attempt that fails at the transport level (the first attempt of a call or
\* one made after a 409 or 429) is the last attempt of its call, and the executor
\* has returned a failure after it.
C1_TransportFailureEndsCall ==
    \A i \in 1..Len(outcomes) :
        outcomes[i] = 0 =>
            /\ i = Len(outcomes)
            /\ ret # None
            /\ is_fail(ret.ret_val)

\* C2: when the gateway did not accept the login, initialize() reports a failure,
\* no session cookie is stored and no action handler runs (the runs in which an
\* exception escapes initialize() are left aside).
C2_RejectedLoginStopsRun ==
    (login = "rejected" /\ pc # "exception") =>
        /\ init_status = APP_ERROR
        /\ pc = "init_failed"
        /\ _headers = Dict({})
        /\ nactions = 0

\* the Set-Cookie value up to the first ';'
UpToSemicolon(set_cookie) == SplitOn(set_cookie, ";")[1]

\* C3 (as amended): the session cookie is the Set-Cookie value of the login
\* response up to the first ';' with the surrounding whitespace stripped; once
\* initialize() has succeeded the session headers never change, and every attempt
\* of every later call (action calls, retried attempts, the logout) carries them.
C3_CookieOnEveryCall ==
    [][ /\ (pc = "login" /\ pc' = "ready") =>
              _headers' = Dict({<<"cookie",
                  Strip(UpToSemicolon(CHOOSE v \in _response.cookie : TRUE))>>})
        /\ init_status = APP_SUCCESS =>
              /\ _headers' = _headers
              /\ attempts' = attempts + 1 => wire'.headers = _headers
      ]_vars

\* C3 as stated: the session cookie is exactly the Set-Cookie value of the login
\* response up to the first ';', and every attempt of every later call carries it.
C3_CookieIsExactPrefix ==
    [][ /\ (pc = "login" /\ pc' = "ready") =>
              _headers' = Dict({<<"cookie",
                  UpToSemicolon(CHOOSE v \in _response.cookie : TRUE)>>})
        /\ init_status = APP_SUCCESS =>
              /\ _headers' = _headers
              /\ attempts' = attempts + 1 => wire'.headers = _headers
      ]_vars

\* a retried attempt of the logout is on the wire with the session cookie
C3_Witness ==
    /\ pc = "logout"
    /\ attempts = 2
    /\ wire.method = "delete"
    /\ wire.headers = Dict({<<"cookie", <<"s">>>>})

ParsableRetryAfter ==
    { <<"5", " ", "seconds">>, <<"2", " ", "minutes">>, <<"0", " ", "Seconds">> }

SecondsOf(v) ==
    CASE v = <<"5", " ", "seconds">> -> 5
      [] v = <<"2", " ", "minutes">> -> 120
      [] v = <<"0", " ", "Seconds">> -> 0

\* the latest attempt was answered by a 429 whose Retry-After is one of vs
RateLimitedWith(outs, r, vs) ==
    /\ outs # <<>>
    /\ Last(outs) = 429
    /\ r.body.kind = "json"
    /\ "Retry-After" \in DOMAIN r.body.val
    /\ r.body.val["Retry-After"] \in vs

\* C5: an attempt answered by a 429 with Retry-After "<N> seconds" or "<N> minutes",
\* N >= 0, makes the executor sleep N respectively 60*N seconds without returning;
\* what follows is one more attempt, with the same request.
C5_RateLimitRetries ==
    [][ /\ (attempts' = attempts + 1
            /\ RateLimitedWith(outcomes', _response', ParsableRetryAfter)) =>
              /\ waits' = Append(waits, SecondsOf(_response'.body.val["Retry-After"]))
              /\ ret' = None
              /\ pc' = pc
        /\ (RateLimitedWith(outcomes, _response, ParsableRetryAfter)
            /\ attempts' # attempts) =>
              /\ attempts' = attempts + 1
              /\ call' = call
              /\ wire' = wire
      ]_vars

\* a call retried once, 120 seconds after a 429 with Retry-After "2 minutes"
C5_Witness ==
    /\ attempts = 2
    /\ outcomes[1] = 429
    /\ waits = <<120>>
    /\ ret # None

\* C6: after a 429 whose Retry-After is absent or has a unit that is neither
\* seconds nor minutes the executor has returned, and what it returned is a
\* failure for its callers.
C6_UnparsableRetryAfterFails ==
    (/\ outcomes # <<>>
     /\ Last(outcomes) = 429
     /\ _response.body.kind = "json"
     /\ \/ "Retry-After" \notin DOMAIN _response.body.val
        \/ _response.body.val["Retry-After"] = <<"3", " ", "hours">>) =>
        /\ ret # None
        /\ is_fail(ret.ret_val)

\* the sets the claims on the list mutation speak of
Requested == ToSet(frame.endpoints)
Existing == ToSet(frame.existing.items)
ToWrite == IF frame.filtered = None THEN {} ELSE ToSet(frame.filtered.items)
Fetched == frame # None /\ frame.existing # None

\* C7: once the current collection E is fetched, the endpoints to write are R - E
\* for ADD_TO_LIST and R intersect E for REMOVE_FROM_LIST, whatever the target.
C7_FilterDelta ==
    Fetched =>
        IF frame.action = "ADD_TO_LIST"
        THEN ToWrite = Requested \ Existing
        ELSE ToWrite = Requested \cap Existing

\* a removal from a category that holds more than is asked to be removed
C7_Witness ==
    /\ Fetched
    /\ frame.action = "REMOVE_FROM_LIST"
    /\ frame.target = "Category"
    /\ Requested = {A}
    /\ Existing = {A, B}
    /\ ToWrite = {A}

\* the action of the state is a list mutation
IsMutation == frame # None /\ frame.target \in {"Blocklist", "Allowlist", "Category"}

\* C8: a list mutation that ended with success has a summary whose updated and
\* ignored are disjoint and together are the requested endpoints.
C8_SummaryPartitionsRequest ==
    (IsMutation /\ action_result.status = APP_SUCCESS) =>
        /\ action_result.summary # None
        /\ ToSet(action_result.summary.updated) \cap ToSet(action_result.summary.ignored) = {}
        /\ ToSet(action_result.summary.updated) \cup ToSet(action_result.summary.ignored)
             = Requested

\* a written mutation that updated one endpoint and ignored the other
C8_Witness ==
    /\ pc = "ready"
    /\ frame # None
    /\ frame.filtered # None
    /\ action_result.status = APP_SUCCESS
    /\ ToSet(action_result.summary.updated) = {B}
    /\ ToSet(action_result.summary.ignored) = {A}

\* nothing is to be written: every requested endpoint is in the list already (ADD)
\* or none is (REMOVE)
NothingToWrite ==
    IF frame.action = "ADD_TO_LIST"
    THEN Requested \subseteq Existing
    ELSE Requested \cap Existing = {}

\* C9: when nothing is to be written the action has ended with success, updated =
\* [] and ignored = the requested endpoints, and the only call it has started is
\* the fetch of the current list.
C9_ShortCircuit ==
    (Fetched /\ NothingToWrite) =>
        /\ pc = "ready"
        /\ action_result.status = APP_SUCCESS
        /\ action_result.summary # None
        /\ action_result.summary.updated = <<>>
        /\ action_result.summary.ignored = frame.endpoints
        /\ issued = <<<<"get", FetchEndpoint(frame.target)>>>>
        /\ wire.method = "get"

\* blocking two endpoints that the block list holds already
C9_Witness ==
    /\ Fetched
    /\ frame.target = "Blocklist"
    /\ frame.action = "ADD_TO_LIST"
    /\ Requested = {A, B}
    /\ Existing = {A, B}
    /\ action_result.status = APP_SUCCESS
    /\ Len(issued) = 1

\* the endpoints in the payload of the write call
Payload ==
    CASE frame.target = "Blocklist" -> ToSet(call.data["blacklistUrls"])
      [] frame.target = "Allowlist" -> ToSet(call.data["whitelistUrls"])
      [] frame.target = "Category" -> ToSet(call.data["dbCategorizedUrls"])

FullNewSet ==
    IF frame.action = "ADD_TO_LIST"
    THEN Existing \cup ToWrite
    ELSE Existing \ ToWrite

\* C10 (as amended): the payload of the write to the allow list or to a category
\* is the full new set (existing union to_write for ADD_TO_LIST, existing minus
\* to_write for REMOVE_FROM_LIST); the payload of the write to the block list is
\* the delta to_write, with the action as the query parameter.
C10_WritePayload ==
    pc = "write" =>
        IF frame.target = "Blocklist"
        THEN Payload = ToWrite /\ call.params = frame.action
        ELSE Payload = FullNewSet

\* C10 as stated: for every target the payload of the write call is the full new
\* set.
C10_PayloadIsFullSet ==
    pc = "write" => Payload = FullNewSet

\* an addition to a non-empty allow list
C10_Witness ==
    /\ pc = "write"
    /\ frame.target = "Allowlist"
    /\ frame.action = "ADD_TO_LIST"
    /\ Existing = {A}
    /\ ToWrite = {B}
    /\ Payload = {A, B}

\* the write call of a list mutation has returned and the handler has ended
WriteDone == pc = "ready" /\ IsMutation /\ frame.filtered # None

\* C11: when the write call of a list mutation has returned a failure and the
\* last attempt of the write was not answered with a 204 (this includes a write
\* that got no answer at all), the action has ended with a failure and without
\* a summary.
C11_FailedWriteReportsFailure ==
    (WriteDone /\ is_fail(ret.ret_val) /\ Last(outcomes) # 204) =>
        /\ action_result.status = APP_ERROR
        /\ action_result.summary = None

\* C12: a list mutation whose write was answered with a 204, whatever its content
\* type, has ended with success and updated = the endpoints to write.
C12_NoContentWriteSucceeds ==
    (WriteDone /\ Last(outcomes) = 204) =>
        /\ action_result.status = APP_SUCCESS
        /\ action_result.summary # None
        /\ action_result.summary.updated = frame.filtered.items

\* a handle_action() that follows another one in the run has ended
SecondEnded == pc = "ready" /\ previous # None /\ frame # None

\* C13: against a faithful gateway, when an ADD_TO_LIST that ended with success is
\* applied once more with the same endpoints to the same target, the second
\* action ends with success, updated = [] and ignored = the requested endpoints,
\* and the only call it has started is the fetch; blocking
\* "http://a.com, https://b.com" on an empty block list updates a.com and b.com
\* and ignores nothing the first time.
C13_AddTwice ==
    (/\ faithful
     /\ SecondEnded
     /\ IsMutation
     /\ frame.action = "ADD_TO_LIST"
     /\ previous.action_result.status = APP_SUCCESS) =>
        /\ action_result.status = APP_SUCCESS
        /\ action_result.summary # None
        /\ action_result.summary.updated = <<>>
        /\ action_result.summary.ignored = frame.endpoints
        /\ issued = <<<<"get", FetchEndpoint(frame.target)>>>>
        /\ (/\ frame.raw = <<HTTP, "a.com", ",", " ", HTTPS, "b.com">>
            /\ frame.target = "Blocklist"
            /\ previous.frame.existing.items = <<>>) =>
               /\ ToSet(previous.action_result.summary.updated) = {A, B}
               /\ previous.action_result.summary.ignored = <<>>

\* "http://a.com, https://b.com" blocked twice on an empty block list
C13_Witness ==
    /\ faithful
    /\ SecondEnded
    /\ frame.raw = <<HTTP, "a.com", ",", " ", HTTPS, "b.com">>
    /\ frame.target = "Blocklist"
    /\ frame.action = "ADD_TO_LIST"
    /\ previous.frame.existing.items = <<>>
    /\ ToSet(previous.action_result.summary.updated) = {A, B}
    /\ action_result.summary.updated = <<>>
    /\ action_result.summary.ignored = <<A, B>>

\* C14: no exception leaves the executor, the session manager or an action
\* handler.
C14_NoUnhandledException == pc # "exception"

\* C15: finalize() issues a DELETE to the session endpoint; however that call
\* ends, finalize() returns success, and the result of the action is not changed
\* by it.
C15_TeardownReportsSuccess ==
    [][ /\ (pc # "logout" /\ pc' = "logout") =>
              /\ call'.method = "delete"
              /\ call'.endpoint = <<"/api/v1/authenticatedSession">>
        /\ pc = "logout" =>
              /\ action_result' = action_result
              /\ attempts' = attempts + 1 => wire'.method = "delete"
              /\ pc' # "logout" => (pc' = "done" /\ finalize_status' = APP_SUCCESS)
      ]_vars

\* C16: a lookup with an empty list of endpoints has ended with a failure and has
\* started no call.
C16_EmptyLookupFails ==
    (frame # None /\ frame.target = "Lookup" /\ frame.endpoints = <<>>) =>
        /\ pc = "ready"
        /\ action_result.status = APP_ERROR
        /\ issued = <<>>

\* the url actions, whose endpoints are checked for their length
CheckedIds == UrlActions \cup {"lookup_url"}

\* C17: a url action with an endpoint of more than 1024 characters (after
\* normalization) has ended with a failure without starting a call; a url action
\* without such an endpoint (one of exactly 1024 characters included) has gone on
\* to its first call.
C17_OverlengthRejected ==
    (frame # None /\ frame.action_id \in CheckedIds) =>
        IF \E i \in 1..Len(frame.endpoints) : StrLen(frame.endpoints[i]) > 1024
        THEN /\ pc = "ready"
             /\ action_result.status = APP_ERROR
             /\ action_result.summary = None
             /\ issued = <<>>
        ELSE issued # <<>>

\* a batch rejected for its second endpoint
C17_Witness ==
    /\ frame # None
    /\ frame.action_id = "block_url"
    /\ frame.endpoints = <<A, <<"x*1025">>>>
    /\ action_result.status = APP_ERROR
    /\ issued = <<>>

\* an endpoint of 1024 characters after the scheme is stripped, looked up
C17_Accepted ==
    /\ frame # None
    /\ frame.action_id = "lookup_url"
    /\ frame.endpoints = <<<<"x*1024">>>>
    /\ pc = "lookup"

\* no category of the list has the configuredName or the id category
NoMatch(cats, category) ==
    \A i \in 1..Len(cats) :
        /\ ~("configuredName" \in DOMAIN cats[i] /\ cats[i].configuredName = category)
        /\ cats[i].id # category

\* the category list is fetched and none of its categories matches the parameter
CategoryMissing ==
    /\ pc = "fetch"
    /\ frame.target = "Category"
    /\ ret # None
    /\ ~is_fail(ret.ret_val)
    /\ ret.response.kind = "list"
    /\ NoMatch(ret.response.items, frame.category)

\* C18: a category mutation whose category matches no configuredName and no id of
\* the fetched list ends with a failure, without a summary and without a write
\* call.
C18_UnknownCategoryFails ==
    [][ CategoryMissing =>
            /\ pc' = "ready"
            /\ action_result'.status = APP_ERROR
            /\ action_result'.summary = None
            /\ issued' = issued
            /\ call' = call
            /\ gateway' = gateway
      ]_vars

\* a mutation of the category "Missing" has ended
C18_Witness ==
    /\ pc = "ready"
    /\ IsMutation
    /\ frame.category = "Missing"
    /\ ret # None
    /\ ret.response.kind = "list"
    /\ action_result.status = APP_ERROR
    /\ action_result.message = <<"Unable to find category">>
    /\ Len(issued) = 1

\* C19: after a successful lookup every record of the gateway has a boolean
\* blocklisted, true exactly when the url of the record is in the fetched block
\* list.
C19_EveryRecordFlagged ==
    (/\ pc = "ready"
     /\ frame # None
     /\ frame.target = "Lookup"
     /\ frame.data # None
     /\ action_result.status = APP_SUCCESS) =>
        \A i \in 1..Len(frame.data.items) :
            LET record == frame.data.items[i] IN
            /\ "blocklisted" \in DOMAIN record
            /\ record.blocklisted \in BOOLEAN
            /\ record.blocklisted =
                  (record.url \in ToSet(GetList(ret.response, "blacklistUrls")))

\* C20: the endpoints that normalization hands to an action handler contain no
\* empty and no whitespace-only entry.
C20_NoEmptyEndpoint ==
    frame # None =>
        \A i \in 1..Len(frame.endpoints) : Strip(frame.endpoints[i]) # <<>>

\* the classifier has been applied to a response without a body
EmptyClassified == pc = "classified" /\ _response.body = EmptyBody

\* the classification of a response without a body by its status alone
ByStatusAlone ==
    IF _response.status \in {200, 204}
    THEN ret.ret_val = APP_SUCCESS /\ ret.resp_json = EmptyObj
    ELSE /\ ret.ret_val = APP_ERROR
         /\ ret.resp_json = None
         /\ ret.message = <<"Empty response and no information in the header">>

\* C21 (as amended): a response without a body whose content type is neither
\* JSON nor HTML is a success with an empty payload when its status is 200 or
\* 204 and the error "Empty response and no information in the header"
\* otherwise; without a body a response that declares JSON is the error "Unable
\* to parse JSON response" and one that declares HTML is the error of an HTML
\* response, whatever the status.
C21_EmptyBodyClassification ==
    EmptyClassified =>
        CASE _response.ctype = CT_NONE -> ByStatusAlone
          [] _response.ctype = CT_JSON ->
                /\ ret.ret_val = APP_ERROR
                /\ ret.resp_json = None
                /\ ret.message = <<"Unable to parse JSON response">>
          [] _response.ctype = CT_HTML ->
                /\ ret.ret_val = APP_ERROR
                /\ ret.resp_json = None
                /\ ret.message = <<"Please check the asset configuration parameters">>

\* C21 as stated: a response without a body is classified by its status alone,
\* whatever content type it declares.
C21_EmptyBodyWhateverType == EmptyClassified => ByStatusAlone

\* a 204 without a body and without a content type, classified
C21_Witness ==
    /\ EmptyClassified
    /\ _response.status = 204
    /\ _response.ctype = CT_NONE
    /\ ret.ret_val = APP_SUCCESS
    /\ ret.resp_json = EmptyObj

RECURSIVE Pow10(_)
Pow10(k) == IF k = 0 THEN 1 ELSE 10 * Pow10(k - 1)

\* digit i (0 is the first of six) of the number v
DigitAt(v, i) == (v \div Pow10(5 - i)) % 10

\* the last six digits of the timestamp as a number, and that number shifted
\* right by one bit
NOf(now) == NatOf(SubSeq(now, Len(now) - 5, Len(now)))
ROf(now) == NOf(now) \div 2

\* C22: for an api_key of at least 12 characters the obfuscated key has 12
\* characters: character i (0..5) is api_key[n[i]] and character 6+j (0..5) is
\* api_key[r[j]+2], with n the last 6 digits of the timestamp and r = n >> 1
\* padded with zeros to 6 digits; r has no more than 6 digits; the timestamp is
\* returned as it is.
C22_ObfuscatedKey ==
    (pc = "obfuscated" /\ Len(call.api_key) >= 12) =>
        /\ ret # Raise
        /\ ret.now = call.now
        /\ Len(ret.key) = 12
        /\ ROf(call.now) < Pow10(6)
        /\ \A i \in 0..5 :
              ret.key[i + 1] = call.api_key[DigitAt(NOf(call.now), i) + 1]
        /\ \A j \in 0..5 :
              ret.key[6 + j + 1] = call.api_key[DigitAt(ROf(call.now), j) + 2 + 1]

\* n = 999998 and r = 499999 select "jjjjji" and "glllll" of "abcdefghijkl"
C22_Witness ==
    /\ pc = "obfuscated"
    /\ call.api_key = <<"a", "b", "c", "d", "e", "f", "g", "h", "i", "j", "k", "l">>
    /\ NOf(call.now) = 999998
    /\ ret.key = <<"j", "j", "j", "j", "j", "i", "g", "l", "l", "l", "l", "l">>

\* the categories of the list cats that have the configuredName, the id name
NamedAs(cats, name) ==
    {i \in 1..Len(cats) :
        "configuredName" \in DOMAIN cats[i] /\ cats[i].configuredName = name}
IdentifiedAs(cats, name) == {i \in 1..Len(cats) : cats[i].id = name}
Least(S) == CHOOSE i \in S : \A j \in S : i <= j

\* C25: when a category of the fetched list has the argument as its
\* configuredName, the first such category is selected, also when a category
\* earlier in the list has the argument as its id; the first category with the
\* argument as its id is selected only when no configuredName matches, and
\* nothing is selected when neither matches.
C25_NameBeforeId ==
    pc = "resolved" =>
        LET cats == call.response.items
            named == NamedAs(cats, call.category)
            identified == IdentifiedAs(cats, call.category)
        IN IF named # {} THEN ret = cats[Least(named)]
           ELSE IF identified # {} THEN ret = cats[Least(identified)]
           ELSE ret = None

\* the second category is selected by its configuredName although the first
\* has the argument as its id
C25_Witness ==
    /\ pc = "resolved"
    /\ call.category = "X"
    /\ call.response.items = <<[id |-> "X"], [id |-> "Y", configuredName |-> "X"]>>
    /\ ret = [id |-> "Y", configuredName |-> "X"]

\* C27: a response whose content type is HTML is classified as an error without
\* a payload, whatever its status and its body.
C27_HtmlIsError ==
    (pc = "classified" /\ _response.ctype = CT_HTML) =>
        /\ ret.ret_val = APP_ERROR
        /\ ret.resp_json = None

\* an HTML response with status 200 and no body, classified
C27_Witness ==
    /\ pc = "classified"
    /\ _response.ctype = CT_HTML
    /\ _response.status = 200
    /\ _response.body = EmptyBody
    /\ ret.ret_val = APP_ERROR

\* a call is in progress: the executor has not returned and goes on to an attempt
Calling ==
    /\ pc \in {"login", "logout"} \cup ActionCalls
    /\ ret = None
    /\ attempts < MaxAttempts

UrlsOf(record) ==
    IF "dbCategorizedUrls" \in DOMAIN record THEN ToSet(record.dbCategorizedUrls) ELSE {}

\* C26: the write of a category mutation is a PUT to /api/v1/urlCategories/<id> of
\* the category that the parameter names in the fetched list; its payload is the
\* record of that category with dbCategorizedUrls replaced by the new full set,
\* every other field as it was fetched.
C26_CategoryWrittenWhole ==
    [][ (pc = "fetch" /\ pc' = "write" /\ frame.target = "Category") =>
            LET cats == ret.response.items
                named == NamedAs(cats, frame.category)
                identified == IdentifiedAs(cats, frame.category)
                record == IF named # {} THEN cats[Least(named)] ELSE cats[Least(identified)]
                to_write == ToSet(frame'.filtered.items)
            IN /\ named \cup identified # {}
               /\ call'.method = "put"
               /\ call'.endpoint = <<"/api/v1/urlCategories/", record.id>>
               /\ call'.params = None
               /\ DOMAIN call'.data = DOMAIN record \cup {"dbCategorizedUrls"}
               /\ \A field \in DOMAIN record \ {"dbCategorizedUrls"} :
                     call'.data[field] = record[field]
               /\ ToSet(call'.data["dbCategorizedUrls"]) =
                     IF frame.action = "ADD_TO_LIST"
                     THEN UrlsOf(record) \cup to_write
                     ELSE UrlsOf(record) \ to_write
      ]_vars

\* b.com is added to the category Custom-1, which holds a.com
C26_Witness ==
    /\ pc = "write"
    /\ frame.target = "Category"
    /\ frame.action = "ADD_TO_LIST"
    /\ call.method = "put"
    /\ call.endpoint = <<"/api/v1/urlCategories/", "CUSTOM_01">>
    /\ call.data["configuredName"] = "Custom-1"
    /\ call.data["superCategory"] = "USER_DEFINED"
    /\ ToSet(call.data["dbCategorizedUrls"]) = {A, B}
    /\ ToWrite = {B}

\* the collection of the target of the mutation, as the gateway g holds it
CollectionOf(g) ==
    CASE frame.target = "Blocklist" -> ToSet(g.blacklistUrls)
      [] frame.target = "Allowlist" -> ToSet(g.whitelistUrls)
      [] frame.target = "Category" ->
           UNION {UrlsOf(g.categories[i]) :
                     i \in {j \in 1..Len(g.categories) : g.categories[j].id = _category.id}}

\* the fetch returned the collection as the gateway held it, and the gateway
\* holds it still, but for what another administrator has added
FetchedAsHeld ==
    /\ Existing \subseteq CollectionOf(gateway)
    /\ CollectionOf(gateway) \ Existing \subseteq {C}

\* C24: after a fetch that returned the collection as the gateway held it, an
\* attempt of the write to the allow list or to a category takes nothing out of
\* the collection of the gateway when the action is ADD_TO_LIST, and nothing but
\* endpoints to write when it is REMOVE_FROM_LIST, whatever another administrator
\* has changed since the fetch.
C24_NoLostUpdate ==
    [][ (/\ pc = "write"
         /\ attempts' = attempts + 1
         /\ frame.target \in {"Allowlist", "Category"}
         /\ FetchedAsHeld) =>
            IF frame.action = "ADD_TO_LIST"
            THEN CollectionOf(gateway) \subseteq CollectionOf(gateway')
            ELSE CollectionOf(gateway) \ CollectionOf(gateway') \subseteq ToWrite
      ]_vars

\* C28: handle_action() with an action identifier that it does not know returns
\* a failure.
C28_UnknownActionFails ==
    (frame # None /\ frame.action_id \notin KnownIds) =>
        frame.ret_val = APP_ERROR

====
